---- MODULE Spec2Model ----
(***************************************************************************)
(* Hotel chatbot: the Streamlit UI (app.py), the Flask endpoints           *)
(* POST /query and POST /twilio_webhook (twilioo.py) and POST /send_email  *)
(* (postmark.py), with the SQLite room store and the hosted model and mail *)
(* APIs as the environment.                                                *)
(*                                                                         *)
(* A text is a sequence of symbols.  A symbol is one printable ASCII       *)
(* character or one of \t \n \f \r, written as itself; or one character    *)
(* outside that range, written by its code point ("U+00A0", "U+00E9"); or  *)
(* one string literal of the source that has no interpolation point,       *)
(* written whole.  A Python value is a record [t, v]: None, or a str with  *)
(* text v.                                                                 *)
(* twilioo.py and postmark.py have started (twilioo.py found its           *)
(* GROQ_API_KEY); the Streamlit script looks for the key on every run.     *)
(***************************************************************************)
EXTENDS Integers, Sequences, FiniteSets, TLC

\* run           a request in progress, on any surface
\* peer          a run of the Streamlit script in progress in another browser
\*               session, at the same time as run
\* db            the file rooms.db
\* groq_api_key  os.environ["GROQ_API_KEY"] of the Streamlit process: Absent,
\*               or its value (load_dotenv sets it when it finds it absent
\*               and never removes it)
VARIABLES run, peer, db, groq_api_key

vars == <<run, peer, db, groq_api_key>>

\* Largest number of rows of room_data in the explored tables.
MaxRows == 2

-----------------------------------------------------------------------------
(* Python values and string operations *)

None == [t |-> "None", v |-> <<>>]

Str(s) == [t |-> "str", v |-> s]

\* bool(x) of None or a str
Truthy(x) == x.t = "str" /\ Len(x.v) > 0

\* {x} inside an f-string
Format(x) == IF x.t = "None" THEN <<"N", "o", "n", "e">> ELSE x.v

\* The characters str.strip() removes: those for which str.isspace() holds
Whitespace ==
  {"\t", "\n", "U+000B", "\f", "\r", "U+001C", "U+001D", "U+001E", "U+001F", " ",
   "U+0085", "U+00A0", "U+1680", "U+2000", "U+2001", "U+2002", "U+2003", "U+2004",
   "U+2005", "U+2006", "U+2007", "U+2008", "U+2009", "U+200A", "U+2028", "U+2029",
   "U+202F", "U+205F", "U+3000"}

RECURSIVE LStrip(_)
LStrip(s) == IF s # <<>> /\ Head(s) \in Whitespace THEN LStrip(Tail(s)) ELSE s

RECURSIVE RStrip(_)
RStrip(s) ==
  IF s # <<>> /\ s[Len(s)] \in Whitespace THEN RStrip(SubSeq(s, 1, Len(s) - 1)) ELSE s

\* str.strip()
Strip(s) == RStrip(LStrip(s))

RECURSIVE Join(_, _)
\* sep.join(parts)
Join(sep, parts) ==
  IF parts = <<>> THEN <<>>
  ELSE IF Len(parts) = 1 THEN parts[1]
  ELSE parts[1] \o sep \o Join(sep, Tail(parts))

XmlEscapeSym(c) ==
  IF c = "&" THEN <<"&", "a", "m", "p", ";">>
  ELSE IF c = "<" THEN <<"&", "l", "t", ";">>
  ELSE IF c = ">" THEN <<"&", "g", "t", ";">>
  ELSE <<c>>

RECURSIVE XmlEscape(_)
XmlEscape(s) == IF s = <<>> THEN <<>> ELSE XmlEscapeSym(Head(s)) \o XmlEscape(Tail(s))

-----------------------------------------------------------------------------
(* The room store *)

Titles == {Str(<<"A">>), None}

Descriptions == {Str(<<"x">>), None}

Rows == [title : Titles, description : Descriptions]

\* title TEXT UNIQUE: no two rows share a non-NULL title
UniqueTitles(rows) ==
  \A i, j \in 1..Len(rows) :
    (i # j /\ rows[i].title.t = "str") => rows[i].title # rows[j].title

Tables ==
  UNION {{rows \in [1..n -> Rows] : UniqueTitles(rows)} : n \in 0..MaxRows}

\* The file rooms.db: whether room_data exists, and its rows in rowid order.
Stores ==
  {[exists |-> FALSE, rows |-> <<>>]} \cup {[exists |-> TRUE, rows |-> t] : t \in Tables}

-----------------------------------------------------------------------------
(* One request in progress: the handler's locals, what it has sent to the  *)
(* outside (log), and what it has answered (resp, widgets).                *)

Absent == [t |-> "absent", v |-> <<>>]

\* dict.get(key, default) on a parsed JSON object or form
Get(field, default) == IF field.t = "absent" THEN default ELSE field

Event(op, args) == [op |-> op, args |-> args]

NoResp == [status |-> 0, ctype |-> "", key |-> "", text |-> <<>>]

NoExc == [raised |-> "", original |-> ""]

NoMail == [to |-> None, subject |-> None, body |-> None]

\* The fields of the request as received (Absent: the field is not there)
NoReq ==
  [query |-> Absent, From |-> Absent, Body |-> Absent, email |-> Absent,
   subject |-> Absent, body |-> Absent]

\* The value of GROQ_API_KEY in os.environ or in the .env file: not there,
\* empty, or a key
KeyValues == {Absent, Str(<<>>), Str(<<"k">>)}

\* What the outside world has answered during one request; each answer is
\* recorded by the step that asks for it (QuietEnv before that).
\*   dotenv  GROQ_API_KEY in the .env file read by load_dotenv()
\*   init    the first statement of init_database that fails, or "ok"
\*   cls/gen the hosted model's answer to the classifier / generator call:
\*           ok with the message content, or not ok with the exception text
\*   connect/select  whether sqlite3.connect / the SELECT of the rows succeed
\*   mail    the mail API's status code, or "raise"
InitOutcomes == {"ok", "connect", "create", "count", "commit"}

ApiError == [ok |-> FALSE, text |-> <<"APIConnectionError">>]

Answer(s) == [ok |-> TRUE, text |-> s]

ClassifierAnswers ==
  {Answer(<<"1">>), Answer(<<"2">>), Answer(<<" ", "1", "\n">>), Answer(<<"1", ".">>),
   Answer(<<"3">>), Answer(<<>>), Answer(<<" ">>), Answer(<<"U+001F", "2", "U+000B">>),
   Answer(<<"U+2003", "1", "U+00A0">>), Answer(<<"U+00E9", "1">>), ApiError}

GeneratorAnswers == {Answer(<<"o", "k">>), Answer(<<"a", "<", "b">>), Answer(<<>>), ApiError}

MailOutcomes == {"200", "422", "raise"}

QuietEnv ==
  [dotenv |-> Absent, init |-> "ok", cls |-> Answer(<<>>), connect |-> TRUE, select |-> TRUE,
   gen |-> Answer(<<>>), mail |-> "200"]

Idle ==
  [surface |-> "none", pc |-> "idle", clicked |-> FALSE, query |-> None,
   query_type |-> None, context |-> None, response |-> None, env |-> QuietEnv,
   log |-> <<>>, resp |-> NoResp, widgets |-> <<>>, exc |-> NoExc,
   mail |-> NoMail, req |-> NoReq]

Widget(w, text) == [w |-> w, text |-> text]

Say(r, w, text) == [r EXCEPT !.widgets = Append(@, Widget(w, text))]

Sent(r, op, args) == [r EXCEPT !.log = Append(@, Event(op, args))]

SqliteError == <<"sqlite3.OperationalError">>

-----------------------------------------------------------------------------
(* app.py: the Streamlit script.  Every interaction runs main() from the   *)
(* top: init_database, then the submit branch.                             *)

\* The literal of app.py lines 20-54, its middle elided here.
App_HOTEL_INFO ==
  <<"\nThira Beach Home is a luxurious seaside retreat [...] Email: thirabeachhomestay@gmail.com\n">>

App_ClassifyPrompt(query) ==
  <<"Classify the following query into one of two categories: [...] Query: ">>
    \o Format(query)
    \o <<"\n        \n        Respond with only the category number (1 or 2).">>

App_SystemPrompt ==
  <<"You are Maya, a friendly and professional hotel receptionist at Thira Beach Home. Your job is to assist guests by providing accurate and helpful information about the hotel, its amenities, and room availability..">>

\* f"Query: {query}\nContext: {context}"
UserPrompt(query, context) ==
  <<"Q", "u", "e", "r", "y", ":", " ">> \o Format(query)
    \o <<"\n", "C", "o", "n", "t", "e", "x", "t", ":", " ">> \o Format(context)

\* f"Room: {title}\nDescription: {description}"
FormatRoom(row) ==
  <<"R", "o", "o", "m", ":", " ">> \o Format(row.title)
    \o <<"\n", "D", "e", "s", "c", "r", "i", "p", "t", "i", "o", "n", ":", " ">>
    \o Format(row.description)

\* Mutant: the blocks joined by a single newline
RoomContext_single_newline(rows) ==
  IF rows # <<>>
  THEN Str(Join(<<"\n">>, [i \in 1..Len(rows) |-> FormatRoom(rows[i])]))
  ELSE Str(<<"No room details available.">>)

\* "\n\n".join([... for title, description in results]), or the fallback
RoomContext(rows) ==
  IF rows # <<>>
  THEN Str(Join(<<"\n", "\n">>, [i \in 1..Len(rows) |-> FormatRoom(rows[i])]))
  ELSE Str(<<"No room details available.">>)

\* main(): the except clause around the whole script
App_main_except(r, raised, original, message) ==
  LET a == Say(r, "error", <<"An error occurred: ">> \o message)
      b == Say(a, "info",
               <<"Please make sure you have set up your .env file with the GROQ_API_KEY">>)
  IN [b EXCEPT !.exc = [raised |-> raised, original |-> original], !.pc = "done"]

\* One run of the script begins: the text box and the button as the browser
\* sent them
App_main_start(query, clicked, env) ==
  [Idle EXCEPT !.surface = "ui", !.pc = "init_app", !.query = query,
               !.clicked = clicked, !.env = env, !.req.query = query]

\* init_app(): load_dotenv() has read the .env file (r.env.dotenv) and tests
\* whether os.environ has the variable already (override=False); environ:
\* GROQ_API_KEY in os.environ at the test
App_load_dotenv(r, environ) ==
  IF environ = Absent /\ r.env.dotenv # Absent THEN [r EXCEPT !.pc = "setenv"]
  ELSE [r EXCEPT !.pc = "getenv"]

\* init_app(): load_dotenv() assigns os.environ["GROQ_API_KEY"]
App_load_dotenv_set(r) == [r EXCEPT !.pc = "getenv"]

\* init_app() from os.getenv on, and main()'s handling of the ValueError it
\* raises ("if not api_key": an empty value counts as no key); environ:
\* GROQ_API_KEY in os.environ at os.getenv
App_init_app(r, environ) ==
  IF Truthy(environ) THEN [r EXCEPT !.pc = "init_database"]
  ELSE App_main_except(r, "ValueError", "ValueError",
         <<"GROQ_API_KEY not found in environment variables. Please check your .env file.">>)

\* init_database(), and main()'s handling of what it raises.  When connect
\* fails, conn is unbound in the finally clause: conn.close() raises
\* UnboundLocalError, which replaces the sqlite3 error.
App_init_database(r) ==
  LET f == r.env.init
      c == IF f = "connect" THEN Sent(r, "db_connect_failed", <<>>) ELSE Sent(r, "db_connect", <<>>)
      t == IF f = "connect" THEN c
           ELSE IF f = "create" THEN Sent(c, "db_create_table_failed", <<>>)
           ELSE Sent(c, "db_create_table", <<>>)
      n == IF f \in {"connect", "create"} THEN t
           ELSE IF f = "count" THEN Sent(t, "db_select_count_failed", <<>>)
           ELSE Sent(t, "db_select_count", <<>>)
      m == IF f \in {"connect", "create", "count"} THEN n
           ELSE IF f = "commit" THEN Sent(n, "db_commit_failed", <<>>)
           ELSE Sent(n, "db_commit", <<>>)
      z == IF f = "connect" THEN m ELSE Sent(m, "db_close", <<>>)
  IN IF f = "ok" THEN [z EXCEPT !.pc = "submit"]
     ELSE IF f = "connect"
     THEN App_main_except(z, "UnboundLocalError", "sqlite3.Error", <<"UnboundLocalError">>)
     ELSE App_main_except(z, "sqlite3.Error", "sqlite3.Error", SqliteError)

\* The store after init_database: CREATE TABLE IF NOT EXISTS has run unless
\* connect or the CREATE itself failed.
App_init_database_store(d, f) ==
  IF f \in {"connect", "create"} THEN d ELSE [d EXCEPT !.exists = TRUE]

\* main(): st.title, st.markdown, st.write above the form
App_main_header(r) ==
  Say(Say(Say(r, "title", <<"Thira Beach Home">>), "markdown", <<"---">>), "write",
      <<"Welcome! Ask any questions about our hotel or room bookings.">>)

\* Mutant: the empty-query check is left out
App_main_submit_unchecked(r) ==
  LET h == App_main_header(r)
  IN IF ~r.clicked THEN [h EXCEPT !.pc = "done"] ELSE [h EXCEPT !.pc = "classify_query"]

\* main(): the page header, the form, the button and the empty-query check
App_main_submit(r) ==
  LET h == App_main_header(r)
  IN IF ~r.clicked THEN [h EXCEPT !.pc = "done"]
     ELSE IF ~Truthy(r.query)
     THEN [Say(h, "error", <<"Please enter a query before submitting.">>)
             EXCEPT !.pc = "done"]
     ELSE [h EXCEPT !.pc = "classify_query"]

\* classify_query(client, query)
App_classify_query(r) ==
  LET c == Sent(r, "classify", <<Str(App_ClassifyPrompt(r.query))>>)
  IN IF r.env.cls.ok
     THEN [c EXCEPT !.query_type = Str(Strip(r.env.cls.text)), !.pc = "resolve"]
     ELSE [Say(c, "error", <<"Error classifying query: ">> \o r.env.cls.text)
             EXCEPT !.query_type = None, !.pc = "resolve"]

\* main(): the branch on query_type
App_main_resolve(r) ==
  IF ~Truthy(r.query_type)
  THEN [Say(r, "error", <<"Failed to classify your query. Please try again.">>)
          EXCEPT !.pc = "done"]
  ELSE IF r.query_type = Str(<<"1">>) THEN [r EXCEPT !.pc = "fetch_room_details"]
  ELSE IF r.query_type = Str(<<"2">>)
  THEN [r EXCEPT !.context = Str(App_HOTEL_INFO), !.pc = "generate_response"]
  ELSE [Say(r, "error", <<"Invalid query classification. Please try again.">>)
          EXCEPT !.pc = "done"]

\* fetch_room_details(), with connect_to_db()
App_fetch_room_details(r, d) ==
  IF ~r.env.connect
  THEN [Say(Sent(r, "db_connect_failed", <<>>), "error",
            <<"Database connection error: ">> \o SqliteError)
          EXCEPT !.context =
                   Str(<<"Unable to fetch room details due to database connection error.">>),
                 !.pc = "generate_response"]
  ELSE LET c == Sent(r, "db_connect", <<>>)
       IN IF r.env.select /\ d.exists
          THEN [Sent(Sent(c, "db_select_rows", <<>>), "db_close", <<>>)
                  EXCEPT !.context = RoomContext(d.rows),
                         !.pc = "generate_response"]
          ELSE [Sent(Sent(c, "db_select_rows_failed", <<>>), "db_close", <<>>)
                  EXCEPT !.context = Str(<<"Error fetching room details: ">> \o SqliteError),
                         !.pc = "generate_response"]

\* generate_response(client, query, context)
App_generate_response(r) ==
  LET g == Sent(r, "generate",
                <<Str(App_SystemPrompt), Str(UserPrompt(r.query, r.context))>>)
  IN IF r.env.gen.ok
     THEN [g EXCEPT !.response = Str(r.env.gen.text), !.pc = "render"]
     ELSE [g EXCEPT !.response = Str(<<"Error generating response: ">> \o r.env.gen.text),
                    !.pc = "render"]

\* main(): st.success / st.write
App_main_render(r) ==
  [Say(Say(r, "success", <<"Response:">>), "write", Format(r.response)) EXCEPT !.pc = "done"]

-----------------------------------------------------------------------------
(* twilioo.py: the Flask endpoints POST /query and POST /twilio_webhook.   *)
(* No function here catches anything: an exception leaves the view and     *)
(* Flask answers 500 with its own error page (debug=False).                *)

Tw_HOTEL_INFO ==
  <<"Thira Beach Home is a luxurious seaside retreat that seamlessly blends Italian-Kerala heritage architecture with modern luxury...">>

Tw_ClassifyPrompt(query) ==
  <<"Classify the following query:\n    1. Checking details - if it's about booking a hotel room\n    2. Getting information - if it's about general hotel info.\n    \n    Query: ">>
    \o Format(query)
    \o <<"\n    Respond with only the number (1 or 2).">>

Tw_SystemPrompt == <<"You are Maya, a friendly hotel receptionist.">>

\* An exception leaves the view function: Flask's 500 page
Flask_unhandled(r, raised) ==
  [r EXCEPT !.resp = [status |-> 500, ctype |-> "html", key |-> "",
                      text |-> <<"Internal Server Error">>],
            !.exc = [raised |-> raised, original |-> raised],
            !.pc = "done"]

JsonReply(status, key, text) == [status |-> status, ctype |-> "json", key |-> key, text |-> text]

\* str(MessagingResponse().message(text)): the text is XML-escaped
\* (an element without text is written <Message />)
TwiML(text) ==
  <<"<?xml version=\"1.0\" encoding=\"UTF-8\"?>">>
    \o (IF text = <<>> THEN <<"<Response><Message /></Response>">>
        ELSE <<"<Response><Message>">> \o XmlEscape(text) \o <<"</Message></Response>">>)

\* handle_query(): parse the body and validate
Tw_handle_query_start(body, env) ==
  LET query == Get(body.query, Str(<<>>))
      r == [Idle EXCEPT !.surface = "query", !.query = query, !.env = env,
                        !.req.query = body.query]
  IN IF ~Truthy(query)
     THEN [r EXCEPT !.resp = JsonReply(400, "error", <<"Query parameter is required">>),
                    !.pc = "done"]
     ELSE [r EXCEPT !.pc = "classify_query"]

\* Mutant: "and" for "or" in the validation
Tw_twilio_webhook_start_and(form, env) ==
  LET phone_number == Get(form.From, None)
      message_body == Get(form.Body, None)
      r == [Idle EXCEPT !.surface = "twilio", !.query = message_body, !.env = env,
                        !.req.From = form.From, !.req.Body = form.Body]
  IN IF ~Truthy(phone_number) /\ ~Truthy(message_body)
     THEN [r EXCEPT !.resp =
                      [status |-> 400, ctype |-> "xml", key |-> "",
                       text |-> <<"<Response><Message>Error: Phone number and message are required.</Message></Response>">>],
                    !.pc = "done"]
     ELSE [r EXCEPT !.pc = "classify_query"]

\* twilio_webhook(): parse the form and validate
Tw_twilio_webhook_start(form, env) ==
  LET phone_number == Get(form.From, None)
      message_body == Get(form.Body, None)
      r == [Idle EXCEPT !.surface = "twilio", !.query = message_body, !.env = env,
                        !.req.From = form.From, !.req.Body = form.Body]
  IN IF ~Truthy(phone_number) \/ ~Truthy(message_body)
     THEN [r EXCEPT !.resp =
                      [status |-> 400, ctype |-> "xml", key |-> "",
                       text |-> <<"<Response><Message>Error: Phone number and message are required.</Message></Response>">>],
                    !.pc = "done"]
     ELSE [r EXCEPT !.pc = "classify_query"]

\* classify_query(query)
Tw_classify_query(r) ==
  LET c == Sent(r, "classify", <<Str(Tw_ClassifyPrompt(r.query))>>)
  IN IF r.env.cls.ok
     THEN [c EXCEPT !.query_type = Str(Strip(r.env.cls.text)), !.pc = "resolve"]
     ELSE Flask_unhandled(c, "APIError")

\* Mutant: category "2" reads the rooms as category "1" does
Tw_handle_query_resolve_always_fetch(r) ==
  IF r.query_type \in {Str(<<"1">>), Str(<<"2">>)} THEN [r EXCEPT !.pc = "fetch_room_details"]
  ELSE [r EXCEPT !.resp = JsonReply(500, "error", <<"Invalid query classification">>),
                 !.pc = "done"]

\* handle_query(): the branch on query_type
Tw_handle_query_resolve(r) ==
  IF r.query_type = Str(<<"1">>) THEN [r EXCEPT !.pc = "fetch_room_details"]
  ELSE IF r.query_type = Str(<<"2">>)
  THEN [r EXCEPT !.context = Str(Tw_HOTEL_INFO), !.pc = "generate_response"]
  ELSE [r EXCEPT !.resp = JsonReply(500, "error", <<"Invalid query classification">>),
                 !.pc = "done"]

\* Mutant: anything that is not "1" is answered as category "2"
Tw_twilio_webhook_resolve_default_info(r) ==
  IF r.query_type = Str(<<"1">>) THEN [r EXCEPT !.pc = "fetch_room_details"]
  ELSE [r EXCEPT !.context = Str(Tw_HOTEL_INFO), !.pc = "generate_response"]

\* twilio_webhook(): the branch on query_type
Tw_twilio_webhook_resolve(r) ==
  IF r.query_type = Str(<<"1">>) THEN [r EXCEPT !.pc = "fetch_room_details"]
  ELSE IF r.query_type = Str(<<"2">>)
  THEN [r EXCEPT !.context = Str(Tw_HOTEL_INFO), !.pc = "generate_response"]
  ELSE [r EXCEPT !.response = Str(<<"Unable to classify your query.">>), !.pc = "reply"]

\* fetch_room_details(), with connect_to_db(): close() is reached only when
\* the SELECT did not raise
Tw_fetch_room_details(r, d) ==
  IF ~r.env.connect
  THEN Flask_unhandled(Sent(r, "db_connect_failed", <<>>), "sqlite3.Error")
  ELSE LET c == Sent(r, "db_connect", <<>>)
       IN IF r.env.select /\ d.exists
          THEN [Sent(Sent(c, "db_select_rows", <<>>), "db_close", <<>>)
                  EXCEPT !.context = RoomContext(d.rows), !.pc = "details"]
          ELSE Flask_unhandled(Sent(c, "db_select_rows_failed", <<>>), "sqlite3.Error")

\* twilio_webhook(): generate_response(...) if details else the fixed text;
\* handle_query() goes on to generate_response unconditionally
Tw_details(r) ==
  IF r.surface = "twilio" /\ ~Truthy(r.context)
  THEN [r EXCEPT !.response = Str(<<"No details found for that number.">>), !.pc = "reply"]
  ELSE [r EXCEPT !.pc = "generate_response"]

\* generate_response(query, context)
Tw_generate_response(r) ==
  LET g == Sent(r, "generate",
                <<Str(Tw_SystemPrompt), Str(UserPrompt(r.query, r.context))>>)
  IN IF r.env.gen.ok
     THEN [g EXCEPT !.response = Str(r.env.gen.text), !.pc = "reply"]
     ELSE Flask_unhandled(g, "APIError")

\* handle_query(): jsonify({"response": response})
Tw_handle_query_reply(r) ==
  [r EXCEPT !.resp = JsonReply(200, "response", Format(r.response)), !.pc = "done"]

\* twilio_webhook(): the TwiML reply
Tw_twilio_webhook_reply(r) ==
  [r EXCEPT !.resp = [status |-> 200, ctype |-> "xml", key |-> "",
                      text |-> TwiML(Format(r.response))],
            !.pc = "done"]

-----------------------------------------------------------------------------
(* postmark.py: POST /send_email *)

DefaultSubject == Str(<<"Room Availability at Thira Beach Home">>)

DefaultBody == Str(<<"Here are the details of the available rooms.">>)

\* Mutant: data.get("subject") without the default
Pm_handle_send_email_start_no_default(body, env) ==
  LET email == Get(body.email, None)
      subject == Get(body.subject, None)
      text == Get(body.body, DefaultBody)
      r == [Idle EXCEPT !.surface = "email", !.env = env,
                        !.mail = [to |-> email, subject |-> subject, body |-> text],
                        !.req.email = body.email, !.req.subject = body.subject,
                        !.req.body = body.body]
  IN IF ~Truthy(email)
     THEN [r EXCEPT !.resp = JsonReply(400, "error", <<"Email is required">>), !.pc = "done"]
     ELSE [r EXCEPT !.pc = "send_email"]

\* handle_send_email(): parse the body, fill the defaults, validate
Pm_handle_send_email_start(body, env) ==
  LET email == Get(body.email, None)
      subject == Get(body.subject, DefaultSubject)
      text == Get(body.body, DefaultBody)
      r == [Idle EXCEPT !.surface = "email", !.env = env,
                        !.mail = [to |-> email, subject |-> subject, body |-> text],
                        !.req.email = body.email, !.req.subject = body.subject,
                        !.req.body = body.body]
  IN IF ~Truthy(email)
     THEN [r EXCEPT !.resp = JsonReply(400, "error", <<"Email is required">>), !.pc = "done"]
     ELSE [r EXCEPT !.pc = "send_email"]

\* send_email(to_email, subject, body), and jsonify(result)
Pm_send_email(r) ==
  LET p == Sent(r, "email_post", <<r.mail.to, r.mail.subject, r.mail.body>>)
  IN IF r.env.mail = "raise" THEN Flask_unhandled(p, "RequestException")
     ELSE IF r.env.mail = "200"
     THEN [p EXCEPT !.resp = JsonReply(200, "message", <<"Email sent successfully">>),
                    !.pc = "done"]
     ELSE [p EXCEPT !.resp = JsonReply(200, "error", <<"response.text">>), !.pc = "done"]

-----------------------------------------------------------------------------
(* Inputs *)

QueryTexts == {Str(<<>>), Str(<<"h", "i">>), Str(<<"A", "C", "?">>)}

\* JSON bodies of POST /query: objects with or without "query" (a body that
\* is not a JSON object is outside the model)
QueryBodies == {[query |-> q] : q \in {Absent, None} \cup QueryTexts}

\* Forms of POST /twilio_webhook
TwilioForms ==
  [From : {Absent, Str(<<>>), Str(<<"+", "1">>)},
   Body : {Absent} \cup QueryTexts]

\* JSON bodies of POST /send_email: objects
EmailBodies ==
  [email : {Absent, None, Str(<<>>), Str(<<"a", "@", "b">>)},
   subject : {Absent, None, Str(<<"S">>)},
   body : {Absent, Str(<<"B">>)}]

-----------------------------------------------------------------------------
(* The state machine.  The three programs are separate processes that     *)
(* share the file rooms.db, and nothing serialises their requests: a       *)
(* handler waits on the model, the store or the mail API while another     *)
(* runs.  run is a request in progress on any surface, followed step by    *)
(* step; peer is a page load in another Streamlit session, whose steps     *)
(* fall anywhere between those of run.  The Streamlit script is the only   *)
(* code that writes what requests share (room_data, by init_database; the  *)
(* process environment, by load_dotenv).  When a handler has answered      *)
(* (pc = "done") it returns: its locals are gone (Idle).                   *)

Init == run = Idle /\ peer = Idle /\ db \in Stores /\ groq_api_key \in KeyValues

\* A visitor loads the page, or edits the text box and presses the button
UiRun ==
  /\ run.pc = "idle"
  /\ \E q \in QueryTexts, clicked \in BOOLEAN : run' = App_main_start(q, clicked, QuietEnv)
  /\ UNCHANGED <<peer, db, groq_api_key>>

\* load_dotenv() up to its test of os.environ
UiLoadDotenv ==
  /\ run.surface = "ui" /\ run.pc = "init_app"
  /\ \E v \in KeyValues : run' = App_load_dotenv([run EXCEPT !.env.dotenv = v], groq_api_key)
  /\ UNCHANGED <<peer, db, groq_api_key>>

\* load_dotenv() assigns the variable: another session may have set it
\* since the test
UiSetenv ==
  /\ run.surface = "ui" /\ run.pc = "setenv"
  /\ run' = App_load_dotenv_set(run)
  /\ groq_api_key' = run.env.dotenv
  /\ UNCHANGED <<peer, db>>

\* os.getenv and the check of the key
UiInitApp ==
  /\ run.surface = "ui" /\ run.pc = "getenv"
  /\ run' = App_init_app(run, groq_api_key)
  /\ UNCHANGED <<peer, db, groq_api_key>>

UiInitDatabase ==
  /\ run.surface = "ui" /\ run.pc = "init_database"
  /\ \E f \in InitOutcomes :
       /\ run' = App_init_database([run EXCEPT !.env.init = f])
       /\ db' = App_init_database_store(db, f)
  /\ UNCHANGED <<peer, groq_api_key>>

UiSubmit ==
  /\ run.surface = "ui" /\ run.pc = "submit"
  /\ run' = App_main_submit(run)
  /\ UNCHANGED <<peer, db, groq_api_key>>

UiClassify ==
  /\ run.surface = "ui" /\ run.pc = "classify_query"
  /\ \E c \in ClassifierAnswers : run' = App_classify_query([run EXCEPT !.env.cls = c])
  /\ UNCHANGED <<peer, db, groq_api_key>>

UiResolve ==
  /\ run.surface = "ui" /\ run.pc = "resolve"
  /\ run' = App_main_resolve(run)
  /\ UNCHANGED <<peer, db, groq_api_key>>

UiFetch ==
  /\ run.surface = "ui" /\ run.pc = "fetch_room_details"
  /\ \E k \in BOOLEAN, s \in BOOLEAN :
       /\ ~k => s
       /\ run' = App_fetch_room_details([run EXCEPT !.env.connect = k, !.env.select = s], db)
  /\ UNCHANGED <<peer, db, groq_api_key>>

UiGenerate ==
  /\ run.surface = "ui" /\ run.pc = "generate_response"
  /\ \E g \in GeneratorAnswers : run' = App_generate_response([run EXCEPT !.env.gen = g])
  /\ UNCHANGED <<peer, db, groq_api_key>>

UiRender ==
  /\ run.surface = "ui" /\ run.pc = "render"
  /\ run' = App_main_render(run)
  /\ UNCHANGED <<peer, db, groq_api_key>>

PostQuery ==
  /\ run.pc = "idle"
  /\ \E b \in QueryBodies : run' = Tw_handle_query_start(b, QuietEnv)
  /\ UNCHANGED <<peer, db, groq_api_key>>

PostTwilioWebhook ==
  /\ run.pc = "idle"
  /\ \E f \in TwilioForms : run' = Tw_twilio_webhook_start(f, QuietEnv)
  /\ UNCHANGED <<peer, db, groq_api_key>>

TwClassify ==
  /\ run.surface \in {"query", "twilio"} /\ run.pc = "classify_query"
  /\ \E c \in ClassifierAnswers : run' = Tw_classify_query([run EXCEPT !.env.cls = c])
  /\ UNCHANGED <<peer, db, groq_api_key>>

QueryResolve ==
  /\ run.surface = "query" /\ run.pc = "resolve"
  /\ run' = Tw_handle_query_resolve(run)
  /\ UNCHANGED <<peer, db, groq_api_key>>

TwilioResolve ==
  /\ run.surface = "twilio" /\ run.pc = "resolve"
  /\ run' = Tw_twilio_webhook_resolve(run)
  /\ UNCHANGED <<peer, db, groq_api_key>>

TwFetch ==
  /\ run.surface \in {"query", "twilio"} /\ run.pc = "fetch_room_details"
  /\ \E k \in BOOLEAN, s \in BOOLEAN :
       /\ ~k => s
       /\ run' = LET f == Tw_fetch_room_details(
                            [run EXCEPT !.env.connect = k, !.env.select = s], db)
                 IN IF f.pc = "details" THEN Tw_details(f) ELSE f
  /\ UNCHANGED <<peer, db, groq_api_key>>

TwGenerate ==
  /\ run.surface \in {"query", "twilio"} /\ run.pc = "generate_response"
  /\ \E g \in GeneratorAnswers : run' = Tw_generate_response([run EXCEPT !.env.gen = g])
  /\ UNCHANGED <<peer, db, groq_api_key>>

QueryReply ==
  /\ run.surface = "query" /\ run.pc = "reply"
  /\ run' = Tw_handle_query_reply(run)
  /\ UNCHANGED <<peer, db, groq_api_key>>

TwilioReply ==
  /\ run.surface = "twilio" /\ run.pc = "reply"
  /\ run' = Tw_twilio_webhook_reply(run)
  /\ UNCHANGED <<peer, db, groq_api_key>>

PostSendEmail ==
  /\ run.pc = "idle"
  /\ \E b \in EmailBodies : run' = Pm_handle_send_email_start(b, QuietEnv)
  /\ UNCHANGED <<peer, db, groq_api_key>>

SendEmail ==
  /\ run.surface = "email" /\ run.pc = "send_email"
  /\ \E m \in MailOutcomes : run' = Pm_send_email([run EXCEPT !.env.mail = m])
  /\ UNCHANGED <<peer, db, groq_api_key>>

\* The handler returns (the script run ends)
Return ==
  /\ run.pc = "done"
  /\ run' = Idle
  /\ UNCHANGED <<peer, db, groq_api_key>>

\* Another visitor loads the page: main() from the top in that session
PeerRun ==
  /\ peer.pc = "idle"
  /\ peer' = App_main_start(Str(<<>>), FALSE, QuietEnv)
  /\ UNCHANGED <<run, db, groq_api_key>>

PeerLoadDotenv ==
  /\ peer.pc = "init_app"
  /\ \E v \in KeyValues :
       peer' = App_load_dotenv([peer EXCEPT !.env.dotenv = v], groq_api_key)
  /\ UNCHANGED <<run, db, groq_api_key>>

PeerSetenv ==
  /\ peer.pc = "setenv"
  /\ peer' = App_load_dotenv_set(peer)
  /\ groq_api_key' = peer.env.dotenv
  /\ UNCHANGED <<run, db>>

PeerInitApp ==
  /\ peer.pc = "getenv"
  /\ peer' = App_init_app(peer, groq_api_key)
  /\ UNCHANGED <<run, db, groq_api_key>>

PeerInitDatabase ==
  /\ peer.pc = "init_database"
  /\ \E f \in InitOutcomes :
       /\ peer' = App_init_database([peer EXCEPT !.env.init = f])
       /\ db' = App_init_database_store(db, f)
  /\ UNCHANGED <<run, groq_api_key>>

PeerSubmit ==
  /\ peer.pc = "submit"
  /\ peer' = App_main_submit(peer)
  /\ UNCHANGED <<run, db, groq_api_key>>

PeerReturn ==
  /\ peer.pc = "done"
  /\ peer' = Idle
  /\ UNCHANGED <<run, db, groq_api_key>>

Next ==
  \/ UiRun \/ UiLoadDotenv \/ UiSetenv \/ UiInitApp \/ UiInitDatabase \/ UiSubmit
  \/ UiClassify \/ UiResolve \/ UiFetch \/ UiGenerate \/ UiRender
  \/ PostQuery \/ PostTwilioWebhook \/ TwClassify \/ QueryResolve \/ TwilioResolve
  \/ TwFetch \/ TwGenerate \/ QueryReply \/ TwilioReply
  \/ PostSendEmail \/ SendEmail \/ Return
  \/ PeerRun \/ PeerLoadDotenv \/ PeerSetenv \/ PeerInitApp \/ PeerInitDatabase
  \/ PeerSubmit \/ PeerReturn

Spec == Init /\ [][Next]_vars

\* main() from the top to its end, on one store and with no other request
\* in progress: the script run as a whole
App_step(r, d, environ) ==
  CASE r.pc = "init_app" -> App_load_dotenv(r, environ)
    [] r.pc = "setenv" -> App_load_dotenv_set(r)
    [] r.pc = "getenv" -> App_init_app(r, environ)
    [] r.pc = "init_database" -> App_init_database(r)
    [] r.pc = "submit" -> App_main_submit(r)
    [] r.pc = "classify_query" -> App_classify_query(r)
    [] r.pc = "resolve" -> App_main_resolve(r)
    [] r.pc = "fetch_room_details" -> App_fetch_room_details(r, d)
    [] r.pc = "generate_response" -> App_generate_response(r)
    [] r.pc = "render" -> App_main_render(r)

RECURSIVE App_main(_, _, _)
App_main(r, d, environ) ==
  IF r.pc = "done" THEN r
  ELSE App_main(App_step(r, d, environ),
                IF r.pc = "init_database" THEN App_init_database_store(d, r.env.init) ELSE d,
                IF r.pc = "setenv" THEN r.env.dotenv ELSE environ)

-----------------------------------------------------------------------------
(* Reading a request's log and output *)

Done == run.pc = "done"

QuerySurfaces == {"ui", "query", "twilio"}

Positions(r, ops) == {i \in DOMAIN r.log : r.log[i].op \in ops}

StoreOps ==
  {"db_connect", "db_connect_failed", "db_create_table", "db_create_table_failed",
   "db_select_count", "db_select_count_failed", "db_commit", "db_commit_failed",
   "db_select_rows", "db_select_rows_failed", "db_close"}

One == Str(<<"1">>)

Two == Str(<<"2">>)

\* The classifier call was made and returned a result
Classified(r) == Positions(r, {"classify"}) # {} /\ r.env.cls.ok

HotelInfoOf(surface) == IF surface = "ui" THEN App_HOTEL_INFO ELSE Tw_HOTEL_INFO

\* The user message of generator call i, for context c
SentContext(r, i, c) == r.log[i].args[2] = Str(UserPrompt(r.query, c))

RECURSIVE RoomBlocks(_)
\* The rows as blocks "Room: T\nDescription: D" with one blank line between
RoomBlocks(rows) ==
  IF Len(rows) = 1
  THEN <<"R", "o", "o", "m", ":", " ">> \o Format(rows[1].title)
         \o <<"\n", "D", "e", "s", "c", "r", "i", "p", "t", "i", "o", "n", ":", " ">>
         \o Format(rows[1].description)
  ELSE RoomBlocks(<<rows[1]>>) \o <<"\n", "\n">> \o RoomBlocks(Tail(rows))

ExpectedRoomContext(rows) ==
  IF Len(rows) = 0 THEN Str(<<"No room details available.">>) ELSE Str(RoomBlocks(rows))

-----------------------------------------------------------------------------
(* Claims *)

\* C1 as stated: for every request classified "1", on every surface, the
\* context passed to the generator is the formatted rows of room_data in
\* table order, or "No room details available." for an empty table.
C1_AsStated ==
  \A i \in Positions(run, {"generate"}) :
    run.query_type = One => SentContext(run, i, ExpectedRoomContext(db.rows))

\* C1 amended: the same whenever the SELECT of the rows succeeded; when the
\* store cannot be opened or read, the UI passes its inline error string as
\* the context, and the Flask surfaces never reach the generator.
C1_RoomContext ==
  \A i \in Positions(run, {"generate"}) :
    run.query_type = One =>
      IF Positions(run, {"db_select_rows"}) # {}
      THEN SentContext(run, i, ExpectedRoomContext(db.rows))
      ELSE /\ run.surface = "ui"
           /\ \/ /\ ~run.env.connect
                 /\ SentContext(run, i,
                      Str(<<"Unable to fetch room details due to database connection error.">>))
              \/ /\ run.env.connect
                 /\ SentContext(run, i, Str(<<"Error fetching room details: ">> \o SqliteError))

C1_Witness ==
  /\ Done /\ run.surface = "twilio" /\ run.query_type = One
  /\ Len(db.rows) = 2 /\ db.rows[2].description = None
  /\ Positions(run, {"generate"}) # {}

C1_WitnessEmpty ==
  /\ Done /\ run.surface = "ui" /\ run.query_type = One /\ db.rows = <<>>
  /\ Positions(run, {"db_select_rows"}) # {} /\ Positions(run, {"generate"}) # {}

\* C2 as stated: for every request classified "2", on every surface, the
\* context passed to the generator is the hotel-description constant and the
\* room store is never opened or read during the request.
C2_AsStated ==
  run.query_type = Two =>
    /\ \A i \in Positions(run, {"generate"}) :
         SentContext(run, i, Str(HotelInfoOf(run.surface)))
    /\ Positions(run, StoreOps) = {}

\* C2 amended: the context is the surface's hotel-description constant and
\* the rows are never read; POST /query and POST /twilio_webhook never open
\* the store, and the UI opens it only in init_database, at the start of
\* the run, before the classifier is called.
C2_HotelContext ==
  run.query_type = Two =>
    /\ \A i \in Positions(run, {"generate"}) :
         SentContext(run, i, Str(HotelInfoOf(run.surface)))
    /\ Positions(run, {"db_select_rows", "db_select_rows_failed"}) = {}
    /\ run.surface # "ui" => Positions(run, StoreOps) = {}
    /\ \A i \in Positions(run, StoreOps), j \in Positions(run, {"classify"}) : i < j

C2_Witness ==
  /\ Done /\ run.query_type = Two /\ run.surface = "query" /\ ~db.exists
  /\ run.resp.status = 200 /\ Positions(run, {"generate"}) # {}

\* The request's output is an error and carries no generated text.
ErrorOutput(r) ==
  IF r.surface = "ui"
  THEN /\ \E i \in DOMAIN r.widgets : r.widgets[i].w = "error"
       /\ \A i \in DOMAIN r.widgets :
            /\ r.widgets[i].w # "success"
            /\ r.widgets[i].w = "write" =>
                 r.widgets[i].text =
                   <<"Welcome! Ask any questions about our hotel or room bookings.">>
  ELSE IF r.surface = "query"
  THEN r.resp.status >= 400 /\ (r.resp.ctype = "json" => r.resp.key = "error")
  ELSE \/ r.resp.status >= 400
       \/ r.resp.text = TwiML(<<"Unable to classify your query.">>)

\* C3: a classifier result other than "1" and "2" never leads to a generator
\* call, and the request ends with an error output, on every surface.
C3_UnknownCategoryIsError ==
  (run.surface \in QuerySurfaces /\ Classified(run) /\ run.query_type \notin {One, Two}) =>
    /\ Positions(run, {"generate"}) = {}
    /\ Done => ErrorOutput(run)

C3_Witness ==
  /\ Done /\ run.surface = "twilio" /\ Classified(run)
  /\ run.query_type = Str(<<"1", ".">>) /\ run.resp.status = 200

\* C4 as stated: POST /query answers 400 {error} without calling the
\* classifier when query is missing or empty; 500 {error} when the
\* classifier call fails or returns an unrecognized category; otherwise
\* 200 {response} holding the generator's text.
C4_AsStated ==
  (run.surface = "query" /\ Done) =>
    IF ~Truthy(Get(run.req.query, None))
    THEN run.resp = JsonReply(400, "error", run.resp.text) /\ run.log = <<>>
    ELSE IF ~run.env.cls.ok \/ run.query_type \notin {One, Two}
    THEN run.resp = JsonReply(500, "error", run.resp.text)
    ELSE run.resp = JsonReply(200, "response", run.env.gen.text) /\ run.env.gen.ok

\* C5: POST /twilio_webhook answers 400 exactly when From or Body is missing
\* or empty, and then calls neither the classifier, the store nor the
\* generator.
C5_TwilioRejectsMissing ==
  (run.surface = "twilio" /\ Done) =>
    LET missing == ~Truthy(Get(run.req.From, None)) \/ ~Truthy(Get(run.req.Body, None))
    IN /\ run.resp.status = 400 <=> missing
       /\ missing => run.log = <<>>

C5_Witness ==
  /\ Done /\ run.surface = "twilio" /\ run.resp.status = 400
  /\ run.req.From = Str(<<>>) /\ Truthy(Get(run.req.Body, None))

\* C6: POST /send_email answers 400 without calling the mail API when the
\* body has no email field; with a recipient it calls the mail API exactly
\* once, with the default subject and body for the fields that are absent.
C6_EmailRequiresRecipient ==
  (run.surface = "email" /\ Done) =>
    /\ run.req.email = Absent =>
         run.resp.status = 400 /\ Positions(run, {"email_post"}) = {}
    /\ Truthy(Get(run.req.email, None)) =>
         /\ run.resp.status # 400
         /\ Cardinality(Positions(run, {"email_post"})) = 1
         /\ \A i \in Positions(run, {"email_post"}) :
              /\ run.log[i].args[1] = run.req.email
              /\ run.log[i].args[2] =
                   (IF run.req.subject = Absent
                    THEN Str(<<"Room Availability at Thira Beach Home">>)
                    ELSE run.req.subject)
              /\ run.log[i].args[3] =
                   (IF run.req.body = Absent
                    THEN Str(<<"Here are the details of the available rooms.">>)
                    ELSE run.req.body)

C6_Witness ==
  /\ Done /\ run.surface = "email" /\ Truthy(Get(run.req.email, None))
  /\ run.req.subject = Absent /\ run.req.body = Absent
  /\ Positions(run, {"email_post"}) # {}

C6_WitnessRejected ==
  /\ Done /\ run.surface = "email" /\ run.req.email = Absent
  /\ run.req.subject # Absent /\ run.resp.status = 400

\* The request passed the surface's validation
Validated(r) ==
  IF r.surface = "ui" THEN r.clicked /\ Truthy(r.req.query)
  ELSE IF r.surface = "query" THEN Truthy(Get(r.req.query, None))
  ELSE Truthy(Get(r.req.From, None)) /\ Truthy(Get(r.req.Body, None))

\* What was sent to the generator, in order
GeneratorCalls(r) ==
  LET g == SelectSeq(r.log, LAMBDA e : e.op = "generate")
  IN [i \in DOMAIN g |-> g[i].args]

\* The request ended by showing a reply text
Replied(r) ==
  IF r.surface = "ui" THEN \E i \in DOMAIN r.widgets : r.widgets[i].w = "success"
  ELSE IF r.surface = "query" THEN r.resp.status = 200 /\ r.resp.key = "response"
  ELSE r.resp.status = 200 /\ Positions(r, {"generate"}) # {}

Outcome(r) == IF Replied(r) THEN <<"reply", Format(r.response)>> ELSE <<"error">>

\* C7 as stated: on the same query text, classifier result, room table and
\* model behaviour, POST /query and POST /twilio_webhook send the generator
\* what the UI sends it and end in the same kind of outcome as the UI.
C7_AsStated ==
  (run.surface \in {"query", "twilio"} /\ Done /\ Validated(run)) =>
    LET ui == App_main(App_main_start(run.query, TRUE, run.env), db, Str(<<"k">>))
    IN /\ GeneratorCalls(run) = GeneratorCalls(ui)
       /\ Outcome(run) = Outcome(ui)

ClassifierFailed(r) == Positions(r, {"classify"}) # {} /\ ~r.env.cls.ok

StoreReadFailed(r) ==
  \E i \in Positions(r, {"db_connect_failed", "db_select_rows_failed"}),
     j \in Positions(r, {"classify"}) : j < i

GeneratorFailed(r) == Positions(r, {"generate"}) # {} /\ ~r.env.gen.ok

\* The output is in the surface's own encoding
OwnOutput(r) ==
  IF r.surface = "ui" THEN \E i \in DOMAIN r.widgets : r.widgets[i].w \in {"error", "success"}
  ELSE IF r.surface = "query" THEN r.resp.ctype = "json"
  ELSE r.resp.ctype = "xml"

\* C8 as stated: when the classifier call, the read of the rows or the
\* generator call fails, no exception leaves the handler and the request
\* ends with the surface's own output; after a classifier failure the
\* generator is not called and the output is an error.
C8_AsStated ==
  (run.surface \in QuerySurfaces /\ Done
     /\ (ClassifierFailed(run) \/ StoreReadFailed(run) \/ GeneratorFailed(run))) =>
    /\ run.exc.raised = ""
    /\ OwnOutput(run)
    /\ ClassifierFailed(run) => Positions(run, {"generate"}) = {} /\ ErrorOutput(run)

RowReads == {"db_select_rows", "db_select_rows_failed"}

CountReads == {"db_select_count", "db_select_count_failed"}

\* Classifier at most once and after validation; generator at most once,
\* after a classifier result "1" or "2"; the reads in `reads` at most once,
\* after the classifier returned "1" and before the generator.
StepOrder(r, reads) ==
  LET cls == Positions(r, {"classify"})
      gen == Positions(r, {"generate"})
      rd == Positions(r, reads)
  IN /\ Cardinality(cls) <= 1 /\ Cardinality(gen) <= 1 /\ Cardinality(rd) <= 1
     /\ cls # {} => Validated(r)
     /\ \A i \in rd : r.query_type = One /\ \E j \in cls : j < i
     /\ \A i \in gen : r.query_type \in {One, Two} /\ \E j \in cls : j < i
     /\ \A i \in rd, k \in gen : i < k

\* C9 as stated: in every request on a query surface the classifier is
\* called at most once and only after validation, the store is read at most
\* once and only after the classifier returned "1", the generator is called
\* at most once and only after "1" or "2".
C9_AsStated ==
  (run.surface \in QuerySurfaces /\ (run.surface = "ui" => run.clicked)) =>
    StepOrder(run, RowReads \cup CountReads)

\* Where init_database has not been entered yet
BeforeInitDatabase == {"idle", "init_app", "setenv", "getenv", "init_database"}

\* C9 amended: the same for the read of the rows (fetch_room_details).  The
\* row count is read only by the UI, in init_database, before validation
\* and before the classifier call: never when init_app raised or when
\* connect or CREATE TABLE failed, exactly once in every other run that has
\* gone through init_database; a run that reaches the classifier has read
\* it successfully.  The Flask surfaces never read it.
C9_StepOrder ==
  run.surface \in QuerySurfaces =>
    /\ StepOrder(run, RowReads)
    /\ run.surface # "ui" => Positions(run, CountReads) = {}
    /\ run.surface = "ui" =>
         /\ Cardinality(Positions(run, CountReads)) =
              (IF /\ run.pc \notin BeforeInitDatabase
                  /\ run.exc.raised # "ValueError"
                  /\ run.env.init \notin {"connect", "create"}
               THEN 1 ELSE 0)
         /\ Positions(run, {"classify"}) # {} =>
              Cardinality(Positions(run, {"db_select_count"})) = 1
    /\ \A i \in Positions(run, CountReads),
          j \in Positions(run, {"classify", "generate"} \cup RowReads) : i < j

C9_Witness ==
  /\ Done /\ run.surface = "ui" /\ run.query_type = One
  /\ Positions(run, CountReads) # {} /\ Positions(run, RowReads) # {}
  /\ Positions(run, {"generate"}) # {}

\* C10 as stated: when a request or an initialisation has ended, every store
\* connection it opened has been closed, and an error raised while using
\* the store is the error that is reported (closing does not replace it).
\* (No action assigns db.rows: the rows are never changed.)
C10_AsStated ==
  Done =>
    /\ Cardinality(Positions(run, {"db_connect"})) = Cardinality(Positions(run, {"db_close"}))
    /\ run.exc.original # "" => run.exc.raised = run.exc.original

====
